---- MODULE Spec2Model ----
(***************************************************************************)
(* Model of AIDEV-ProjectSetup.  The first part models                     *)
(* Utils/DirectoryParser.py: ParseStructure, a line-oriented parser of     *)
(* tree text into a nested mapping, and FormatStructureToText, which       *)
(* writes such a mapping back as tree text.                                *)
(*                                                                         *)
(* Text is modelled character by character: a string is a sequence of      *)
(* Unicode code points, so that strip(), split(), the two regular          *)
(* expressions and sorted() are computed as Python computes them.          *)
(* A nested dict whose values are all dicts is modelled as the sequence,   *)
(* in insertion order, of the key paths of its entries.                    *)
(***************************************************************************)
EXTENDS Integers, Sequences, FiniteSets, TLC

\* ------------------------------------------------------------------ bounds

\* Largest number of lines of an input text.
MaxLines == 3

\* ------------------------------------------------------------- characters

NL == 10
SP == 32
DOT == 46
BoxH == 9472
BoxV == 9474
BoxUR == 9492
BoxVR == 9500

\* The characters Python's str.strip() and the regex class \s treat as
\* whitespace, restricted to those that occur in the modelled texts.
WhiteSpace == {SP, NL}

ConnTee == <<BoxVR, BoxH, BoxH, SP>>
ConnElbow == <<BoxUR, BoxH, BoxH, SP>>
ConnPipe == <<BoxV, SP, SP, SP>>

StrReadme == <<82, 69, 65, 68, 77, 69, 46, 109, 100>>
StrLicense == <<76, 73, 67, 69, 78, 83, 69>>
StrRequirements == <<114, 101, 113, 117, 105, 114, 101, 109, 101, 110, 116, 115, 46, 116, 120, 116>>
StrGitignore == <<46, 103, 105, 116, 105, 103, 110, 111, 114, 101>>
StrDotDot == <<46, 46>>

\* The list of names exempt from the file filter (line 72).
SpecialNames == {StrDotDot, StrReadme, StrLicense, StrRequirements, StrGitignore}

\* ------------------------------------------------------ Python str methods

Max(S) == CHOOSE x \in S : \A y \in S : y <= x
Min(a, b) == IF a <= b THEN a ELSE b

\* Number of leading whitespace characters of s.
LeadingWs(s) ==
    IF \A i \in 1..Len(s) : s[i] \in WhiteSpace THEN Len(s)
    ELSE (CHOOSE i \in 1..Len(s) :
              s[i] \notin WhiteSpace /\ \A j \in 1..(i - 1) : s[j] \in WhiteSpace) - 1

\* Number of trailing whitespace characters of s.
TrailingWs(s) ==
    IF \A i \in 1..Len(s) : s[i] \in WhiteSpace THEN Len(s)
    ELSE Len(s) - (CHOOSE i \in 1..Len(s) :
              s[i] \notin WhiteSpace /\ \A j \in (i + 1)..Len(s) : s[j] \in WhiteSpace)

\* str.rstrip()
RStrip(s) == SubSeq(s, 1, Len(s) - TrailingWs(s))

\* str.strip()
Strip(s) == LET r == RStrip(s) IN SubSeq(r, LeadingWs(r) + 1, Len(r))

\* str.split('\n'): always at least one (possibly empty) piece.
RECURSIVE SplitLines(_)
SplitLines(s) ==
    IF \A i \in 1..Len(s) : s[i] # NL THEN <<s>>
    ELSE LET i == CHOOSE k \in 1..Len(s) : s[k] = NL /\ \A j \in 1..(k - 1) : s[j] # NL
         IN  <<SubSeq(s, 1, i - 1)>> \o SplitLines(SubSeq(s, i + 1, Len(s)))

\* '\n'.join(lines)
RECURSIVE JoinLines(_)
JoinLines(lines) ==
    IF lines = <<>> THEN <<>>
    ELSE IF Len(lines) = 1 THEN lines[1]
    ELSE lines[1] \o <<NL>> \o JoinLines(Tail(lines))

\* 'x in s' for a character x.
Contains(s, c) == \E i \in 1..Len(s) : s[i] = c

\* s.startswith(pre), looking at offset k of s.
StartsWithAt(s, k, pre) ==
    /\ Len(s) >= k + Len(pre)
    /\ \A i \in 1..Len(pre) : s[k + i] = pre[i]

\* Python's order on str: lexicographic by code point.
RECURSIVE LexLess(_, _)
LexLess(a, b) ==
    IF b = <<>> THEN FALSE
    ELSE IF a = <<>> THEN TRUE
    ELSE IF a[1] # b[1] THEN a[1] < b[1]
    ELSE LexLess(Tail(a), Tail(b))

\* sorted(keys) for a set of strings.
RECURSIVE Sorted(_)
Sorted(K) ==
    IF K = {} THEN <<>>
    ELSE LET m == CHOOSE k \in K : \A o \in K \ {k} : LexLess(k, o)
         IN  <<m>> \o Sorted(K \ {m})

\* Python values: a str carries its characters, anything else only its type
\* and its truth value.
PyStr(s) == [type |-> "str", truthy |-> s # <<>>, chars |-> s]
PyNone == [type |-> "NoneType", truthy |-> FALSE, chars |-> <<>>]
PyZero == [type |-> "int", truthy |-> FALSE, chars |-> <<>>]
PyInt == [type |-> "int", truthy |-> TRUE, chars |-> <<>>]
PyList == [type |-> "list", truthy |-> TRUE, chars |-> <<>>]

\* list.pop(): raises IndexError on an empty list.
PyPop(L) ==
    [ok |-> L # <<>>, list |-> IF L = <<>> THEN <<>> ELSE SubSeq(L, 1, Len(L) - 1)]

\* --------------------------------------------- DirectoryParser: the regexes

NoMatch == [matched |-> FALSE, indent |-> <<>>, name |-> <<>>]

\* Length of the text that the second group of IndentPattern,
\* (├── |└── |│   |\s\s\s), matches at offset k of Line; 0 when none does.
ConnectorLenAt(Line, k) ==
    IF \/ StartsWithAt(Line, k, ConnTee)
       \/ StartsWithAt(Line, k, ConnElbow)
       \/ StartsWithAt(Line, k, ConnPipe)
    THEN 4
    ELSE IF Len(Line) >= k + 3 /\ \A i \in 1..3 : Line[k + i] \in WhiteSpace
    THEN 3
    ELSE 0

\* IndentPattern = ^(\s*)(├── |└── |│   |\s\s\s)(.+)$ matched on Line.
\* The greedy \s* takes the longest run of leading whitespace after which the
\* second group matches and at least one character is left for (.+).
\* indent is group 1, name is group 3.
IndentPattern(Line) ==
    LET Ks == {k \in 0..LeadingWs(Line) :
                  /\ ConnectorLenAt(Line, k) > 0
                  /\ Len(Line) > k + ConnectorLenAt(Line, k)}
    IN  IF Ks = {} THEN NoMatch
        ELSE LET k == Max(Ks)
             IN  [matched |-> TRUE,
                  indent |-> SubSeq(Line, 1, k),
                  name |-> SubSeq(Line, k + ConnectorLenAt(Line, k) + 1, Len(Line))]

\* DirectPattern = ^(\s*)(.+)$ matched on Line: indent is group 1, name is
\* group 2.  Only the empty line does not match.
DirectPattern(Line) ==
    IF Line = <<>> THEN NoMatch
    ELSE LET k == Min(LeadingWs(Line), Len(Line) - 1)
         IN  [matched |-> TRUE,
              indent |-> SubSeq(Line, 1, k),
              name |-> SubSeq(Line, k + 1, Len(Line))]

\* Lines 58-69: the (Indent, Name) pair of a line; matched is FALSE when the
\* line is skipped because neither pattern matches.
Classify(Line) ==
    LET M == IndentPattern(Line)
        D == DirectPattern(Line)
    IN  IF M.matched
        THEN [matched |-> TRUE, Indent |-> Len(M.indent), Name |-> Strip(M.name)]
        ELSE IF D.matched
        THEN [matched |-> TRUE, Indent |-> Len(D.indent), Name |-> Strip(D.name)]
        ELSE [matched |-> FALSE, Indent |-> 0, Name |-> <<>>]

\* Line 72 without its list of exempt names.
IsSkippedFileNoList(Name) ==
    /\ Contains(Name, DOT)
    /\ ~StartsWithAt(Name, 0, <<DOT>>)

\* Line 72: the condition under which a classified name is skipped as a file.
IsSkippedFile(Name) ==
    /\ Contains(Name, DOT)
    /\ ~StartsWithAt(Name, 0, <<DOT>>)
    /\ Name \notin SpecialNames

\* Lines 44-47 without the test for the root line '.'.
RECURSIVE ProcessLinesKeepRoot(_)
ProcessLinesKeepRoot(Lines) ==
    IF Lines = <<>> THEN <<>>
    ELSE LET Line == RStrip(Lines[1])
         IN  (IF Line # <<>> THEN <<Line>> ELSE <<>>)
                 \o ProcessLinesKeepRoot(Tail(Lines))

\* Lines 44-47: the lines kept for the main loop.
RECURSIVE ProcessLines(_)
ProcessLines(Lines) ==
    IF Lines = <<>> THEN <<>>
    ELSE LET Line == RStrip(Lines[1])
         IN  (IF Line # <<>> /\ Strip(Line) # <<DOT>> THEN <<Line>> ELSE <<>>)
                 \o ProcessLines(Tail(Lines))

\* ------------------------------------------- DirectoryParser: the main loop

\* 'Path.pop()' without the test 'if Path' of lines 83 and 88.
PopUnguarded(r) == [ok |-> r.ok /\ PyPop(r.list).ok, list |-> PyPop(r.list).list]

\* Lines 83-84 and 88-89: 'if Path: Path.pop()' on a list and its error flag.
PopIfAny(r) ==
    IF r.list # <<>>
    THEN [ok |-> r.ok /\ PyPop(r.list).ok, list |-> PyPop(r.list).list]
    ELSE r

\* A single guarded pop whatever the number of levels.
PopTimesOnce(r, n) == PopIfAny(r)

\* Lines 82-84: the loop 'for _ in range(n): if Path: Path.pop()'.
RECURSIVE PopTimes(_, _)
PopTimes(r, n) == IF n <= 0 THEN r ELSE PopTimes(PopIfAny(r), n - 1)

\* Lines 76-90: the path after a retained line with (Indent, Name).
AdjustPath(Path, PrevIndent, Indent, Name) ==
    LET r0 == [ok |-> TRUE, list |-> Path]
        r  == IF Indent > PrevIndent THEN r0
              ELSE IF Indent < PrevIndent
              THEN PopTimes(r0, ((PrevIndent - Indent) \div 2) + 1)
              ELSE PopIfAny(r0)
    IN  [ok |-> r.ok, list |-> Append(r.list, Name)]

\* 'key in dict' for the entry with key path p.
HasEntry(S, p) == \E i \in 1..Len(S) : S[i] = p

\* p is a key path below q.
IsBelow(p, q) == Len(p) > Len(q) /\ SubSeq(p, 1, Len(q)) = q

\* 'Current[PathItem] = {}' without the test of line 98: an entry on the way
\* down is replaced by an empty one.
EnsureEntryClearing(S, p) ==
    Append(SelectSeq(S, LAMBDA q : q # p /\ ~IsBelow(q, p)), p)

\* Lines 98-99: 'if PathItem not in Current: Current[PathItem] = {}' for the
\* entry with key path p.
EnsureEntry(S, p) == IF HasEntry(S, p) THEN S ELSE Append(S, p)

\* Lines 97-100: walk down Path[:-1], creating the entries that are missing.
RECURSIVE EnsureParents(_, _, _)
EnsureParents(S, Path, k) ==
    IF k >= Len(Path) THEN S
    ELSE EnsureParents(EnsureEntry(S, SubSeq(Path, 1, k)), Path, k + 1)

\* 'Current[Path[-1]] = {}' without the test of line 103: an entry that is
\* already there loses its children.
AddLeafClearing(S, p) ==
    LET Kept == SelectSeq(S, LAMBDA q : ~IsBelow(q, p))
    IN  IF HasEntry(Kept, p) THEN Kept ELSE Append(Kept, p)

\* Lines 103-104: 'if Path[-1] not in Current: Current[Path[-1]] = {}' for
\* the entry with key path p.
AddLeaf(S, p) == IF HasEntry(S, p) THEN S ELSE Append(S, p)

\* The walk of lines 97-100 without the entry of lines 103-104.
MaterializeParents(S, Path) ==
    IF Path = <<>> THEN S ELSE EnsureParents(S, Path, 1)

\* Lines 96-104: create the entries of Path in S.
Materialize(S, Path) ==
    IF Path = <<>> THEN S ELSE AddLeaf(EnsureParents(S, Path, 1), Path)

\* Lines 56-104: one iteration of the main loop on the parser state st.
ParseLine(st, Line) ==
    LET C == Classify(Line)
    IN  IF ~C.matched \/ IsSkippedFile(C.Name) THEN st
        ELSE LET A == AdjustPath(st.Path, st.PrevIndent, C.Indent, C.Name)
             IN  [ok |-> st.ok /\ A.ok,
                  PrevIndent |-> C.Indent,
                  Path |-> A.list,
                  Structure |-> Materialize(st.Structure, A.list)]

\* Lines 56-104: the main loop over the lines from number i on; it stops at
\* a line that raises.
RECURSIVE ParseLoop(_, _, _)
ParseLoop(st, Lines, i) ==
    IF i > Len(Lines) \/ ~st.ok THEN st
    ELSE ParseLoop(ParseLine(st, Lines[i]), Lines, i + 1)

\* Line 36: 'not Content or not isinstance(Content, str)'.
RejectsContent(Content) == ~Content.truthy \/ Content.type # "str"

\* Lines 39-47: the retained lines of a str Content.
RetainedLines(Content) == ProcessLines(SplitLines(Strip(Content.chars)))

\* Lines 53-54: the parser state before the first line.
StartState == [ok |-> TRUE, PrevIndent |-> -1, Path |-> <<>>, Structure |-> <<>>]

\* ParseStructure as a function of its argument: ok is FALSE when the call
\* raises, value is the returned mapping.
ParseStructure(Content) ==
    IF RejectsContent(Content) THEN [ok |-> TRUE, value |-> <<>>]
    ELSE LET st == ParseLoop(StartState, RetainedLines(Content), 1)
         IN  [ok |-> st.ok, value |-> st.Structure]

\* ----------------------------------- DirectoryParser: FormatStructureToText

\* Structure.keys(): the keys of the top level of S.
TopKeys(S) == {S[i][1] : i \in 1..Len(S)}

\* Structure[Name]: the mapping stored under the top-level key Name.
RECURSIVE Children(_, _)
Children(S, Name) ==
    IF S = <<>> THEN <<>>
    ELSE (IF Len(S[1]) > 1 /\ S[1][1] = Name THEN <<Tail(S[1])>> ELSE <<>>)
             \o Children(Tail(S), Name)

\* list(Structure.keys()): the keys of the top level in insertion order.
RECURSIVE KeysInOrder(_)
KeysInOrder(S) ==
    IF S = <<>> THEN <<>>
    ELSE LET Before == KeysInOrder(SubSeq(S, 1, Len(S) - 1))
             Key    == S[Len(S)][1]
         IN  IF \E i \in 1..Len(Before) : Before[i] = Key
             THEN Before ELSE Append(Before, Key)

\* The keys of one level visited as the mapping holds them, without sorted().
FormatKeysUnsorted(S) == KeysInOrder(S)

\* Lines 125: the order in which the keys of one level are visited.
FormatKeys(S) == Sorted(TopKeys(S))

\* IsLast compared against the wrong index: the key before the last one is
\* taken for the last.
ConnectorOffByOne(i, n) == IF i + 1 = n THEN ConnElbow ELSE ConnTee

\* Lines 131-136: the connector of the i-th of n keys.
Connector(i, n) == IF i = n THEN ConnElbow ELSE ConnTee

\* Lines 131-136: the prefix handed to the children of the i-th of n keys.
ChildPrefix(Prefix, i, n) ==
    IF i = n THEN Prefix \o <<SP, SP, SP, SP>> ELSE Prefix \o ConnPipe

\* The loop of lines 127-147 without the recursion of lines 143-145.
RECURSIVE FormatFromFlat(_, _, _, _)
FormatFromFlat(S, Prefix, Keys, i) ==
    IF i > Len(Keys) THEN <<>>
    ELSE <<Prefix \o Connector(i, Len(Keys)) \o Keys[i]>>
             \o FormatFromFlat(S, Prefix, Keys, i + 1)

\* Lines 119-149: the lines for the mapping S under Prefix.
RECURSIVE FormatStructureToText(_, _)
RECURSIVE FormatFrom(_, _, _, _)
FormatFrom(S, Prefix, Keys, i) ==
    IF i > Len(Keys) THEN <<>>
    ELSE LET Name == Keys[i]
             Sub  == Children(S, Name)
         IN  <<Prefix \o Connector(i, Len(Keys)) \o Name>>
                 \o (IF Sub # <<>>
                     THEN FormatStructureToText(Sub, ChildPrefix(Prefix, i, Len(Keys)))
                     ELSE <<>>)
                 \o FormatFrom(S, Prefix, Keys, i + 1)

FormatStructureToText(S, Prefix) ==
    IF S = <<>> THEN <<>> ELSE FormatFrom(S, Prefix, FormatKeys(S), 1)

\* A dict as a Python value: entries holds its key paths.
PyDict(S) == [type |-> "dict", truthy |-> S # <<>>, chars |-> <<>>, entries |-> S]

\* Line 119 on the argument of a top-level call: anything that is falsy or
\* not a dict gives the empty list.
FormatArgument(v) ==
    IF ~v.truthy \/ v.type # "dict" THEN <<>>
    ELSE FormatStructureToText(v.entries, <<>>)

\* ------------------------------------------------------------ input texts

\* Names that occur in the input lines: a, b, the file name a.b, the
\* hidden name .a and the special file README.md.
NameA == <<97>>
NameB == <<98>>
NameFile == <<97, DOT, 98>>
NameHidden == <<DOT, 97>>

\* Lines with a directory name: plain, indented by two and by four spaces,
\* behind a connector, and behind a connector under a drawn or blank column.
DirectoryLines ==
    { NameA, NameB,
      <<SP, SP>> \o NameA, <<SP, SP>> \o NameB,
      <<SP, SP, SP, SP>> \o NameB,
      ConnTee \o NameA, ConnElbow \o NameB,
      ConnPipe \o ConnElbow \o NameB,
      <<SP, SP, SP, SP>> \o ConnElbow \o NameA }

\* The lines of the input texts: directory lines, a blank line, the root
\* marker, a file, a hidden name and a special file.
InputLines ==
    DirectoryLines \cup {<<SP>>, <<DOT>>, NameFile, NameHidden, StrReadme}

\* The sequences of at most n input lines.
RECURSIVE LineSeqs(_)
LineSeqs(n) ==
    IF n = 0 THEN {<<>>}
    ELSE LET Shorter == LineSeqs(n - 1)
         IN  Shorter \cup {Append(ls, l) : ls \in Shorter, l \in InputLines}

\* The arguments ParseStructure is called with.
Inputs ==
    {PyStr(JoinLines(ls)) : ls \in LineSeqs(MaxLines)}
        \cup {PyNone, PyZero, PyInt, PyList}

\* ------------------------------------------------------------ state machine

VARIABLES
    Content,         \* the argument of the ParseStructure call
    pc,              \* "call", "loop", "done", "raised", "formatted",
                     \* "formatted_content", "reparsed"
    ProcessedLines,  \* the local ProcessedLines
    LineNo,          \* the number of the next line of ProcessedLines
    PrevIndent,      \* the local PrevIndent
    Path,            \* the local Path
    Structure,       \* the local Structure; the returned mapping when done
    Formatted,       \* the lines FormatStructureToText returned for Structure
    Reparsed         \* what ParseStructure returned for the formatted lines

\* Repeated ParseStructure calls on one DirectoryParser instance.
VARIABLES
    Heap,            \* the dict objects the calls built: <<dict, key, value>>
    Allocated,       \* the number of dict objects created so far
    Results          \* per call: its argument and the dict object it returned

\* DatabaseIntegration: the SQLite files.
VARIABLES
    ProjectDbs,      \* per database path: the tables and rows of the file
    HubDb,           \* the tables and rows of the hub database file
    DbCall,          \* the latest call: its name, path and return value
    Registered       \* per ProjectName: the Description and path of the
                     \* latest RegisterProject call that returned True

\* ProjectInitializer: one InitializeProject call and the project directory.
VARIABLES
    ProjectConfig,     \* the argument of InitializeProject
    DefaultStructure,  \* Config.Get('DefaultStructure')
    Templates,         \* the template files that exist under TemplatesPath
    GitWorks,          \* "no": every git command fails; "local": only
                       \* 'git push' fails; "push": every git command succeeds
    Dirs,              \* the directories under ProjectPath/ProjectName as key
                       \* paths, <<>> being the project directory itself
    Files,             \* the regular files under it: path and content
    Git,               \* the git repository of the project directory
    StructureUsed,     \* the local Structure of CreateDirectoryStructure
    ipc,               \* the step InitializeProject takes next
    InitResult,        \* what InitializeProject returned
    Steps,             \* the operations the current call has performed, in
                       \* order, each with whether it succeeded
    Runs               \* the number of InitializeProject calls made

\* GitHubManager: one ValidateRepository call.
VARIABLES
    Lookup,          \* the call: its arguments, the configured token, the
                     \* request it sent and the outcome of requests.get
    Validation       \* what the call did: raised or the Status it returned

\* DirectoryEditor: the item model of the tree view.
VARIABLES
    Items,           \* the items of DirectoryModel: id, parent (0 for the
                     \* invisible root) and text; rows are in order of id
    LastItem,        \* the id of the item created last
    NamesBound,      \* whether QLineEdit and QTimer are bound in the module
    EditorCall,      \* the latest handler: its inputs and its outcome
    Configuration    \* the entries of the mapping GetConfiguration returned

parserVars == <<Content, pc, ProcessedLines, LineNo, PrevIndent, Path, Structure,
                Formatted, Reparsed>>

callVars == <<Heap, Allocated, Results>>

databaseVars == <<ProjectDbs, HubDb, DbCall, Registered>>

projectVars == <<ProjectConfig, DefaultStructure, Templates, GitWorks, Dirs,
                 Files, Git, StructureUsed, ipc, InitResult, Steps, Runs>>

githubVars == <<Lookup, Validation>>

editorVars == <<Items, LastItem, NamesBound, EditorCall, Configuration>>

vars == <<parserVars, callVars, databaseVars, projectVars, githubVars, editorVars>>

\* The variables each part of the program leaves alone.
exceptParser == <<callVars, databaseVars, projectVars, githubVars, editorVars>>
exceptCalls == <<parserVars, databaseVars, projectVars, githubVars, editorVars>>
exceptDatabase == <<parserVars, callVars, projectVars, githubVars, editorVars>>
exceptProject == <<parserVars, callVars, githubVars, editorVars>>
exceptGitHub == <<parserVars, callVars, databaseVars, projectVars, editorVars>>
exceptEditor == <<parserVars, callVars, databaseVars, projectVars, githubVars>>

\* No ParseStructure call is in progress.
ParserIdle ==
    /\ Content = PyNone
    /\ pc = "idle"
    /\ ProcessedLines = <<>>
    /\ LineNo = 0
    /\ PrevIndent = -1
    /\ Path = <<>>
    /\ Structure = <<>>
    /\ Formatted = <<>>
    /\ Reparsed = [ok |-> TRUE, value |-> <<>>]

\* No call has been made on the instance.
CallsIdle ==
    /\ Heap = {}
    /\ Allocated = 0
    /\ Results = <<>>

\* A database file without tables.
EmptyDb == [tables |-> {}, rows |-> {}]

\* The paths InitializeProjectDatabase is called with: a file in a
\* directory, and a bare file name.
DbPaths == {[dir |-> "Directories", file |-> "project.db"],
            [dir |-> "", file |-> "project.db"]}

\* The path of the hub database, Config.Get('DatabasePath'), and the path
\* of no file.
HubPath == [dir |-> "hub", file |-> "Himalaya.db"]
NoPath == [dir |-> "none", file |-> "none"]

\* DatabaseIntegration lines 37-61: the hub database as the constructor
\* creates it when the file does not exist.
InitializeHimalayaDatabase ==
    [tables |-> {"project", "component", "standard", "validation_rule"},
     rows |-> {}]

\* No database call has been made; the hub database is as constructed.
DatabaseIdle ==
    /\ ProjectDbs = [path \in DbPaths |-> EmptyDb]
    /\ HubDb = InitializeHimalayaDatabase
    /\ DbCall = [op |-> "none", path |-> NoPath, result |-> FALSE]
    /\ Registered = {}

\* No git repository.
NoRepository ==
    [initialized |-> FALSE, committed |-> FALSE, origin |-> "none", pushed |-> FALSE]

\* No InitializeProject call has been made.
ProjectIdle ==
    /\ ProjectConfig = [ProjectName |-> "alpha", Description |-> "one",
                        ProjectPath |-> "", GitHubAccount |-> "acct",
                        RepositoryName |-> "repo", GitHubPAT |-> "",
                        DirectoryStructure |-> <<>>]
    /\ DefaultStructure = PyNone
    /\ Templates = {}
    /\ GitWorks = "no"
    /\ Dirs = {}
    /\ Files = {}
    /\ Git = NoRepository
    /\ StructureUsed = <<>>
    /\ ipc = "idle"
    /\ InitResult = "none"
    /\ Steps = <<>>
    /\ Runs = 0

\* The body of a response that was never received.
NoBody == [kind |-> "none", size |-> 0]

\* No ValidateRepository call has been made.
GitHubIdle ==
    /\ Lookup = [Account |-> "acct", RepoName |-> "repo", Token |-> "",
                 ConfigToken |-> "", Url |-> "", Authorization |-> "",
                 raises |-> FALSE, status_code |-> 0, body |-> NoBody]
    /\ Validation = [called |-> FALSE, raised |-> FALSE, Status |-> "none"]

\* No handler of the editor has run.
NoEditorCall == [op |-> "none", item |-> 0, ok |-> FALSE, name |-> <<>>,
                 outcome |-> "none"]

\* No DirectoryEditor has been made.
EditorIdle ==
    /\ Items = {}
    /\ LastItem = 0
    /\ NamesBound = FALSE
    /\ EditorCall = NoEditorCall
    /\ Configuration = {}

Init ==
    /\ CallsIdle
    /\ DatabaseIdle
    /\ ProjectIdle
    /\ GitHubIdle
    /\ EditorIdle
    /\ Content \in Inputs
    /\ pc = "call"
    /\ ProcessedLines = <<>>
    /\ LineNo = 0
    /\ PrevIndent = -1
    /\ Path = <<>>
    /\ Structure = <<>>
    /\ Formatted = <<>>
    /\ Reparsed = [ok |-> TRUE, value |-> <<>>]

\* Lines 36-54: the call up to the main loop, with its two early returns.
ParseBegin ==
    /\ pc = "call"
    /\ IF RejectsContent(Content)
       THEN /\ pc' = "done"
            /\ UNCHANGED <<ProcessedLines, LineNo>>
       ELSE /\ ProcessedLines' = RetainedLines(Content)
            /\ pc' = IF ProcessedLines' = <<>> THEN "done" ELSE "loop"
            /\ LineNo' = 1
    /\ PrevIndent' = StartState.PrevIndent
    /\ Path' = StartState.Path
    /\ Structure' = StartState.Structure
    /\ UNCHANGED <<Content, Formatted, Reparsed>>
    /\ UNCHANGED exceptParser

\* Lines 56-104: one iteration of the main loop.
ParseStep ==
    /\ pc = "loop"
    /\ LineNo <= Len(ProcessedLines)
    /\ LET st == ParseLine([ok |-> TRUE, PrevIndent |-> PrevIndent,
                            Path |-> Path, Structure |-> Structure],
                           ProcessedLines[LineNo])
       IN  /\ pc' = IF st.ok THEN "loop" ELSE "raised"
           /\ PrevIndent' = st.PrevIndent
           /\ Path' = st.Path
           /\ Structure' = st.Structure
    /\ LineNo' = LineNo + 1
    /\ UNCHANGED <<Content, ProcessedLines, Formatted, Reparsed>>
    /\ UNCHANGED exceptParser

\* Line 106: the return after the last line.
ParseReturn ==
    /\ pc = "loop"
    /\ LineNo > Len(ProcessedLines)
    /\ pc' = "done"
    /\ UNCHANGED <<Content, ProcessedLines, LineNo, PrevIndent, Path, Structure,
                   Formatted, Reparsed>>
    /\ UNCHANGED exceptParser

\* FormatStructureToText(Structure) on the returned mapping.
Format ==
    /\ pc = "done"
    /\ Formatted' = FormatArgument(PyDict(Structure))
    /\ pc' = "formatted"
    /\ UNCHANGED <<Content, ProcessedLines, LineNo, PrevIndent, Path, Structure,
                   Reparsed>>
    /\ UNCHANGED exceptParser

\* FormatStructureToText(Content): the formatter handed the value the parser
\* was given, which is never a dict.
FormatContent ==
    /\ pc = "done"
    /\ Formatted' = FormatArgument(Content)
    /\ pc' = "formatted_content"
    /\ UNCHANGED <<Content, ProcessedLines, LineNo, PrevIndent, Path, Structure,
                   Reparsed>>
    /\ UNCHANGED exceptParser

\* ParseStructure('\n'.join(lines)) on the formatted lines.
Reparse ==
    /\ pc = "formatted"
    /\ Reparsed' = ParseStructure(PyStr(JoinLines(Formatted)))
    /\ pc' = "reparsed"
    /\ UNCHANGED <<Content, ProcessedLines, LineNo, PrevIndent, Path, Structure,
                   Formatted>>
    /\ UNCHANGED exceptParser

Next ==
    ParseBegin \/ ParseStep \/ ParseReturn \/ Format \/ FormatContent \/ Reparse

Spec == Init /\ [][Next]_vars

\* The mapping a dict denotes: its entries without their insertion order.
Tree(S) == {S[i] : i \in 1..Len(S)}

TypeOK ==
    /\ pc \in {"call", "loop", "done", "raised", "formatted", "formatted_content",
               "reparsed"}
    /\ LineNo \in 0..(Len(ProcessedLines) + 1)

\* --------------------------------------------------------------- properties

\* The parser state after the first k retained lines.
StateAfter(k) == ParseLoop(StartState, SubSeq(ProcessedLines, 1, k), 1)

\* The call has returned.
Returned == pc \in {"done", "formatted", "formatted_content", "reparsed"}

\* The names used as keys at any depth of S.
KeysOf(S) == {S[i][Len(S[i])] : i \in 1..Len(S)}

\* S is a nested mapping: no entry twice, every entry under an entry.
IsMapping(S) ==
    /\ \A i, j \in 1..Len(S) : S[i] = S[j] => i = j
    /\ \A i \in 1..Len(S) :
          /\ S[i] # <<>>
          /\ Len(S[i]) > 1 => HasEntry(S, SubSeq(S[i], 1, Len(S[i]) - 1))

\* A line that is blank or the root marker.
IsIgnorableLine(l) == Strip(l) \in {<<>>, <<DOT>>}

\* The lines of the input text as written, without the blank and root lines.
WrittenLines ==
    SelectSeq(SplitLines(Content.chars), LAMBDA l : ~IsIgnorableLine(l))

\* The four special file names.
SpecialFiles == {StrReadme, StrLicense, StrRequirements, StrGitignore}

\* The names the file filter keeps, as the specification words it.
FilterKeeps(N) ==
    \/ ~Contains(N, DOT)
    \/ (N # <<>> /\ N[1] = DOT)
    \/ N \in SpecialFiles

\* The name the parser reads from retained line i.
NameOf(i) == Classify(ProcessedLines[i]).Name

\* Retained lines i < j that both pass the file filter, with none between
\* them that does.
Consecutive(i, j) ==
    /\ i < j
    /\ FilterKeeps(NameOf(i))
    /\ FilterKeeps(NameOf(j))
    /\ \A k \in (i + 1)..(j - 1) : ~FilterKeeps(NameOf(k))

\* C1: for every tree T that ParseStructure returns, ParseStructure of the
\* lines of FormatStructureToText(T) joined by newlines returns T.
C1_RoundTrip ==
    pc = "reparsed" => Reparsed.ok /\ Tree(Reparsed.value) = Tree(Structure)

\* C3: ParseStructure returns an empty mapping and raises nothing when its
\* argument is not a str, is empty, or has only blank and root-marker lines.
NothingToParse ==
    \/ Content.type # "str"
    \/ LET Lines == SplitLines(Content.chars)
       IN  \A i \in 1..Len(Lines) : IsIgnorableLine(Lines[i])

C3_EmptyInput ==
    NothingToParse =>
        /\ pc \in {"call", "done", "formatted", "formatted_content", "reparsed"}
        /\ Structure = <<>>

C3_Witness ==
    /\ pc = "done"
    /\ NothingToParse
    /\ Content.type = "str"
    /\ Contains(Content.chars, DOT)
    /\ Contains(Content.chars, NL)

\* C4: ParseStructure never raises; it passes once over the retained lines and
\* returns a mapping with at most one entry for each line.
C4_Total ==
    /\ pc # "raised"
    /\ Reparsed.ok
    /\ IsMapping(Structure)
    /\ pc = "loop" => LineNo <= Len(ProcessedLines) + 1
    /\ Returned /\ ~RejectsContent(Content) => LineNo = Len(ProcessedLines) + 1
    /\ Returned => Len(Structure) <= Len(ProcessedLines)

\* A line of the input asked for more segments to be popped than Path held,
\* and another line was dropped as a file.
C4_Witness ==
    /\ pc = "done"
    /\ \E k \in 2..Len(ProcessedLines) :
          LET C == Classify(ProcessedLines[k])
              B == StateAfter(k - 1)
          IN  /\ ~IsSkippedFile(C.Name)
              /\ C.Indent < B.PrevIndent
              /\ ((B.PrevIndent - C.Indent) \div 2) + 1 > Len(B.Path)
    /\ \E k \in 1..Len(ProcessedLines) : IsSkippedFile(NameOf(k))

\* C6: a retained line gives an entry exactly if its Name has no '.', starts
\* with '.', or is a special file name; the keys of the mapping are the names
\* of those lines.
C6_FileFilter ==
    pc \in {"loop", "done"} =>
        KeysOf(Structure) =
            {NameOf(i) : i \in {k \in 1..(LineNo - 1) : FilterKeeps(NameOf(k))}}

C6_Witness ==
    /\ pc = "done"
    /\ StrReadme \in KeysOf(Structure)
    /\ \E i \in 1..Len(ProcessedLines) : NameOf(i) = NameFile
    /\ NameFile \notin KeysOf(Structure)

\* C9: a name that occurs again at the same nesting position does not clear
\* the children recorded under it: the entry of every retained line is in
\* the returned mapping.
C9_NoClearing ==
    pc = "done" =>
        \A k \in 1..Len(ProcessedLines) :
            StateAfter(k).Path = <<>> \/ HasEntry(Structure, StateAfter(k).Path)

\* A line named an entry that was already there and had children.
C9_Witness ==
    /\ pc = "done"
    /\ \E k \in 2..Len(ProcessedLines) :
          LET B == StateAfter(k - 1)
              A == StateAfter(k)
          IN  /\ ~IsSkippedFile(NameOf(k))
              /\ HasEntry(B.Structure, A.Path)
              /\ \E i \in 1..Len(B.Structure) : IsBelow(B.Structure[i], A.Path)

\* ---- tree text as tree-listing tools draw it

Blank4 == <<SP, SP, SP, SP>>

\* The number of columns ('│   ' or four spaces) before the connector of a
\* drawn line; negative when the line is not columns, connector, name.
RECURSIVE DrawnDepth(_)
DrawnDepth(l) ==
    IF StartsWithAt(l, 0, ConnTee) \/ StartsWithAt(l, 0, ConnElbow) THEN 0
    ELSE IF StartsWithAt(l, 0, ConnPipe) \/ StartsWithAt(l, 0, Blank4)
    THEN 1 + DrawnDepth(SubSeq(l, 5, Len(l)))
    ELSE -100

\* The name a drawn line shows after its connector.
DrawnName(l) == SubSeq(l, 4 * DrawnDepth(l) + 5, Len(l))

\* A directory name: not empty, without whitespace, glyphs or dots.
IsBareName(n) ==
    /\ n # <<>>
    /\ \A i \in 1..Len(n) : n[i] \notin WhiteSpace \cup {BoxH, BoxV, BoxUR, BoxVR, DOT}

\* Entry i of the drawn lines E is the last of its level: the next line that
\* is not deeper, if any, is shallower.
IsLastDrawn(E, i) ==
    \A j \in (i + 1)..Len(E) :
        (\A k \in (i + 1)..(j - 1) : DrawnDepth(E[k]) > DrawnDepth(E[i]))
            => DrawnDepth(E[j]) # DrawnDepth(E[i])

\* The line under which entry i is drawn at depth c.
DrawnAncestor(E, i, c) == Max({j \in 1..i : DrawnDepth(E[j]) = c})

\* The key path at which entry i is drawn.
DrawnPath(E, i) ==
    [c \in 1..(DrawnDepth(E[i]) + 1) |-> DrawnName(E[DrawnAncestor(E, i, c - 1)])]

\* E is the drawing of a tree: every line is columns, connector and a
\* directory name, no line is more than one level deeper than the line
\* before, the last entry of a level has '└── ' and the others '├── ', the
\* column under a last entry is blank and under another entry '│   ', and no
\* two entries are drawn at the same key path.
IsDrawnTree(E) ==
    /\ E # <<>>
    /\ \A i \in 1..Len(E) : DrawnDepth(E[i]) >= 0 /\ IsBareName(DrawnName(E[i]))
    /\ DrawnDepth(E[1]) = 0
    /\ \A i \in 2..Len(E) : DrawnDepth(E[i]) <= DrawnDepth(E[i - 1]) + 1
    /\ \A i \in 1..Len(E) :
          /\ StartsWithAt(E[i], 4 * DrawnDepth(E[i]), ConnElbow) <=> IsLastDrawn(E, i)
          /\ \A c \in 0..(DrawnDepth(E[i]) - 1) :
                StartsWithAt(E[i], 4 * c, Blank4)
                    <=> IsLastDrawn(E, DrawnAncestor(E, i, c))
    /\ \A i, j \in 1..Len(E) : DrawnPath(E, i) = DrawnPath(E, j) => i = j

\* The lines of the input text after its optional root line '.'.
DrawnLines ==
    LET Lines == SplitLines(Content.chars)
    IN  IF Lines[1] = <<DOT>> THEN Tail(Lines) ELSE Lines

\* C2: for tree text as tree-listing tools draw it, ParseStructure returns
\* the mapping in which each entry is a child of the entry it is drawn under
\* and every key is the bare name.
C2_CanonicalText ==
    (pc = "done" /\ Content.type = "str" /\ IsDrawnTree(DrawnLines)) =>
        Tree(Structure) = {DrawnPath(DrawnLines, i) : i \in 1..Len(DrawnLines)}

\* C5: ParseStructure(text) equals ParseStructure of the text without its
\* blank lines and root-marker lines.
C5_IgnoredLines ==
    (pc = "done" /\ Content.type = "str") =>
        Tree(Structure) = Tree(ParseStructure(PyStr(JoinLines(WrittenLines))).value)

\* C7: in every result an entry named README.md, LICENSE, requirements.txt
\* or .gitignore has no children.
C7_SpecialLeaves ==
    \A i \in 1..Len(Structure) :
        \A k \in 1..(Len(Structure[i]) - 1) : Structure[i][k] \notin SpecialFiles

\* C8: two consecutive retained lines written with the same leading
\* indentation give two children of the same parent.
C8_Siblings ==
    (pc = "done" /\ Content.type = "str") =>
        \A i, j \in 1..Len(ProcessedLines) :
            (Consecutive(i, j) /\ LeadingWs(WrittenLines[i]) = LeadingWs(WrittenLines[j]))
                => \E q \in Tree(Structure) \cup {<<>>} :
                      /\ HasEntry(Structure, Append(q, NameOf(i)))
                      /\ HasEntry(Structure, Append(q, NameOf(j)))

\* The input text has no connector glyphs: every line is spaces and a name.
IsPlainText ==
    \A i \in 1..Len(WrittenLines) :
        LET n == Strip(WrittenLines[i])
        IN  \A k \in 1..Len(n) : n[k] \notin WhiteSpace \cup {BoxH, BoxV, BoxUR, BoxVR}

\* C10: in text without connector glyphs, a line with more leading spaces
\* than the retained line before it becomes a child of that line.
C10_PlainNesting ==
    (pc = "done" /\ Content.type = "str" /\ IsPlainText) =>
        \A i, j \in 1..Len(ProcessedLines) :
            (Consecutive(i, j) /\ LeadingWs(WrittenLines[j]) > LeadingWs(WrittenLines[i]))
                => HasEntry(Structure, Append(StateAfter(i).Path, NameOf(j)))

\* ---- the formatter's output

\* The sequence S in the opposite order.
Reverse(S) == [i \in 1..Len(S) |-> S[Len(S) + 1 - i]]

\* Lines i and j of the drawn lines E are entries of the same parent, i
\* before j.
DrawnSiblings(E, i, j) ==
    /\ i < j
    /\ DrawnDepth(E[i]) = DrawnDepth(E[j])
    /\ \A k \in (i + 1)..(j - 1) : DrawnDepth(E[k]) > DrawnDepth(E[i])

\* C11: FormatStructureToText emits the keys of every level in ascending
\* lexicographic order, and the mapping with the same content inserted in
\* the opposite order gives the same lines.
C11_Canonical ==
    pc = "formatted" =>
        /\ \A i, j \in 1..Len(Formatted) :
              DrawnSiblings(Formatted, i, j)
                  => LexLess(DrawnName(Formatted[i]), DrawnName(Formatted[j]))
        /\ Formatted = FormatArgument(PyDict(Reverse(Structure)))

\* A mapping was formatted that holds two keys of one level in descending
\* insertion order.
C11_Witness ==
    /\ pc = "formatted"
    /\ \E i, j \in 1..Len(Structure) :
          /\ i < j
          /\ Len(Structure[i]) = Len(Structure[j])
          /\ SubSeq(Structure[i], 1, Len(Structure[i]) - 1)
                 = SubSeq(Structure[j], 1, Len(Structure[j]) - 1)
          /\ LexLess(Structure[j][Len(Structure[j])], Structure[i][Len(Structure[i])])

\* The entries of S under the same parent as the entry p, p among them.
SiblingsOf(S, p) ==
    {q \in Tree(S) : /\ Len(q) = Len(p)
                     /\ SubSeq(q, 1, Len(q) - 1) = SubSeq(p, 1, Len(p) - 1)}

\* The entry p has the lexicographically last key of its level.
IsLastKey(S, p) ==
    \A q \in SiblingsOf(S, p) : q = p \/ LexLess(q[Len(q)], p[Len(p)])

\* The prefix handed down to the entry p through its first c ancestors: four
\* spaces under an ancestor with the last key of its level, '│   ' under any
\* other.
RECURSIVE PrefixOf(_, _, _)
PrefixOf(S, p, c) ==
    IF c = 0 THEN <<>>
    ELSE PrefixOf(S, p, c - 1)
             \o (IF IsLastKey(S, SubSeq(p, 1, c)) THEN Blank4 ELSE ConnPipe)

\* C12: every line of the output is the prefix handed down to its entry,
\* then '└── ' when the entry has the lexicographically last key of its
\* level and '├── ' otherwise, then the key.
C12_Connectors ==
    pc = "formatted" =>
        \A i \in 1..Len(Formatted) :
            /\ DrawnDepth(Formatted[i]) >= 0
            /\ LET p == DrawnPath(Formatted, i)
               IN  /\ HasEntry(Structure, p)
                   /\ Formatted[i] =
                          PrefixOf(Structure, p, Len(p) - 1)
                              \o (IF IsLastKey(Structure, p) THEN ConnElbow ELSE ConnTee)
                              \o p[Len(p)]

\* A mapping was formatted in which a key that is not the last of its level
\* has a child, so that both connectors and a '│   ' prefix are emitted.
C12_Witness ==
    /\ pc = "formatted"
    /\ \E i \in 1..Len(Structure) :
          /\ Len(Structure[i]) = 2
          /\ ~IsLastKey(Structure, SubSeq(Structure[i], 1, 1))
    /\ \E i \in 1..Len(Formatted) : StartsWithAt(Formatted[i], 0, ConnPipe)

\* C13: the output has one line per entry at any depth, the line of an
\* entry is followed at once by the lines of its whole subtree, every line
\* ends with the key of its entry, and a falsy or non-dict argument gives no
\* lines.
C13_PreOrder ==
    /\ pc = "formatted_content" => Formatted = <<>>
    /\ pc = "formatted" =>
          /\ Len(Formatted) = Cardinality(Tree(Structure))
          /\ \A i \in 1..Len(Formatted) : DrawnDepth(Formatted[i]) >= 0
          /\ {DrawnPath(Formatted, i) : i \in 1..Len(Formatted)} = Tree(Structure)
          /\ \A i, j \in 1..Len(Formatted) :
                IsBelow(DrawnPath(Formatted, j), DrawnPath(Formatted, i))
                    <=> /\ i < j
                        /\ \A k \in (i + 1)..j :
                              DrawnDepth(Formatted[k]) > DrawnDepth(Formatted[i])

\* A mapping was formatted in which an entry with a child is followed by a
\* sibling: the child's line stands between the two.
C13_Witness ==
    /\ pc = "formatted"
    /\ \E i \in 1..(Len(Formatted) - 2) :
          /\ DrawnDepth(Formatted[i + 1]) = DrawnDepth(Formatted[i]) + 1
          /\ DrawnDepth(Formatted[i + 2]) = DrawnDepth(Formatted[i])
          /\ HasEntry(Structure, Append(DrawnPath(Formatted, i), DrawnName(Formatted[i + 1])))

\* ------------------------------- repeated calls on one DirectoryParser

\* The number of ParseStructure calls made on the instance.
MaxCalls == 3

\* The arguments of the calls: None, the empty text, one name, a nested
\* pair, a nested pair with a sibling, two names, two connector lines and a
\* special file with a line below it.
CallTexts ==
    { PyNone, PyStr(<<>>), PyStr(NameA),
      PyStr(JoinLines(<<NameA, <<SP, SP>> \o NameB>>)),
      PyStr(JoinLines(<<NameA, <<SP, SP>> \o NameB, NameB>>)),
      PyStr(JoinLines(<<NameB, NameA>>)),
      PyStr(JoinLines(<<ConnTee \o NameA, ConnElbow \o NameB>>)),
      PyStr(JoinLines(<<StrReadme, <<SP, SP>> \o NameA>>)) }

\* A dict display that hands back the dict object created last instead of
\* creating one.
NewDictShared(n) == IF n > 0 THEN n ELSE n + 1

\* Lines 37, 40 and 50: '{}' creates a dict object that did not exist.
NewDict(n) == n + 1

\* The key paths of the mapping held by the dict object d.
RECURSIVE PathsFrom(_, _)
PathsFrom(H, d) ==
    UNION { {<<e[2]>>} \cup {<<e[2]>> \o q : q \in PathsFrom(H, e[3])}
            : e \in {x \in H : x[1] = d} }

\* The dict objects of the mapping held by the dict object d, d among them.
RECURSIVE NodesFrom(_, _)
NodesFrom(H, d) ==
    {d} \cup UNION { NodesFrom(H, e[3]) : e \in {x \in H : x[1] = d} }

\* Lines 26-106 as one call: the returned dict is created at line 37, 40 or
\* 50 and every entry gets a dict of its own at line 99 or 104.
ParseCall ==
    /\ Len(Results) < MaxCalls
    /\ \E Text \in CallTexts : \E S \in {ParseStructure(Text).value} :
          LET Root     == NewDict(Allocated)
              DictOf(i) == Allocated + 1 + i
              Holder(i) ==
                  IF Len(S[i]) = 1 THEN Root
                  ELSE DictOf(CHOOSE j \in 1..Len(S) :
                                  S[j] = SubSeq(S[i], 1, Len(S[i]) - 1))
          IN  /\ Heap' = Heap \cup {<<Holder(i), S[i][Len(S[i])], DictOf(i)>>
                                       : i \in 1..Len(S)}
              /\ Allocated' = Allocated + 1 + Len(S)
              /\ Results' = Append(Results, [text |-> Text, root |-> Root])
    /\ UNCHANGED exceptCalls

InitCalls ==
    ParserIdle /\ CallsIdle /\ DatabaseIdle /\ ProjectIdle /\ GitHubIdle /\ EditorIdle

NextCalls == ParseCall

SpecCalls == InitCalls /\ [][NextCalls]_vars

ProjectNames == {"alpha", "beta"}
Descriptions == {"one", "two"}
ProjectPaths == {"/p", "/q"}
DbConfigs ==
    [ProjectName : ProjectNames, Description : Descriptions,
     ProjectPath : ProjectPaths, GitHubAccount : {"acct"},
     RepositoryName : {"repo"}]

\* uuid.uuid4().hex[:8]: the values the random id can take.
UuidValues == {"0a0a0a0a", "1b1b1b1b"}

\* The tables lines 175-179 create.
ProjectTables ==
    {"ProjectConfig", "Documentation", "HelpContent", "ProjectState", "SubProjects"}

\* The rows of one table.
RowsOf(db, Table) == {r \in db.rows : r.table = Table}

\* INSERT INTO a table with an AUTOINCREMENT id; ok is FALSE when Unique and
\* a row with the key is there (sqlite3.IntegrityError).
Insert(d, Table, Key, Value, Unique) ==
    IF ~d.ok \/ (Unique /\ \E r \in RowsOf(d.db, Table) : r.key = Key)
    THEN [ok |-> FALSE, db |-> d.db]
    ELSE [ok |-> TRUE,
          db |-> [d.db EXCEPT !.rows = @ \cup
                     {[table |-> Table, id |-> Cardinality(RowsOf(d.db, Table)) + 1,
                       key |-> Key, value |-> Value]}]]

\* Lines 286-348: three ProjectConfig rows, whose ConfigKey is UNIQUE, a
\* ProjectState row and a Documentation row.
InsertInitialData(d, Config) ==
    LET a == Insert(d, "ProjectConfig", "ProjectName", <<Config.ProjectName>>, TRUE)
        b == Insert(a, "ProjectConfig", "ProjectDescription", <<Config.Description>>, TRUE)
        c == Insert(b, "ProjectConfig", "GitHubRepo",
                    <<Config.GitHubAccount, Config.RepositoryName>>, TRUE)
        e == Insert(c, "ProjectState", "Initial", <<"Setup">>, FALSE)
    IN  Insert(e, "Documentation", "Setup", <<Config.ProjectName>>, FALSE)

\* Lines 137-192. os.makedirs raises for the empty dirname of a bare file
\* name. CREATE TABLE schema_version runs before the first INSERT opens the
\* transaction, so it stays when a later statement raises and the rest is
\* rolled back with the unclosed connection.
InitializeProjectDatabase(db, DbPath, Config) ==
    IF DbPath.dir = "" THEN [ok |-> FALSE, db |-> db]
    ELSE LET versioned == [db EXCEPT !.tables = @ \cup {"schema_version"}]
             version   ==
                 IF RowsOf(db, "schema_version") # {} THEN versioned
                 ELSE [versioned EXCEPT !.rows = @ \cup
                          {[table |-> "schema_version", id |-> 1, key |-> "1",
                            value |-> <<"Initial schema creation">>]}]
             created   == [version EXCEPT !.tables = @ \cup ProjectTables]
             filled    == InsertInitialData([ok |-> TRUE, db |-> created], Config)
         IN  IF filled.ok THEN filled ELSE [ok |-> FALSE, db |-> versioned]

\* str(Path(ProjectPath) / ProjectName) of line 440.
FullPath(Config) == [dir |-> Config.ProjectPath, file |-> Config.ProjectName]

\* Lines 388-456: CREATE TABLE IF NOT EXISTS project, then INSERT OR REPLACE,
\* which first deletes every row that has the new row's project_id (PRIMARY
\* KEY) or its name (UNIQUE).
RegisterProject(db, Config, Uuid) ==
    LET Kept == {r \in db.rows :
                    r.table # "project"
                        \/ (r.id # Uuid /\ r.key # Config.ProjectName)}
    IN  [ok |-> TRUE,
         db |-> [tables |-> db.tables \cup {"project"},
                 rows |-> Kept \cup
                     {[table |-> "project", id |-> Uuid, key |-> Config.ProjectName,
                       value |-> <<Config.Description, FullPath(Config)>>]}]]

\* A call of InitializeProjectDatabase(DbPath, ProjectConfig).
InitializeProjectDatabaseCall ==
    \E DbPath \in DbPaths, Config \in DbConfigs :
        LET r == InitializeProjectDatabase(ProjectDbs[DbPath], DbPath, Config)
        IN  /\ ProjectDbs' = [ProjectDbs EXCEPT ![DbPath] = r.db]
            /\ DbCall' = [op |-> "InitializeProjectDatabase", path |-> DbPath,
                          result |-> r.ok]
            /\ UNCHANGED <<HubDb, Registered>>
            /\ UNCHANGED exceptDatabase

\* A call of RegisterProject(ProjectConfig).
RegisterProjectCall ==
    \E Config \in DbConfigs, Uuid \in UuidValues :
        LET r == RegisterProject(HubDb, Config, Uuid)
        IN  /\ HubDb' = r.db
            /\ DbCall' = [op |-> "RegisterProject", path |-> HubPath, result |-> r.ok]
            /\ Registered' =
                   IF r.ok
                   THEN {g \in Registered : g.name # Config.ProjectName}
                            \cup {[name |-> Config.ProjectName,
                                   description |-> Config.Description,
                                   path |-> FullPath(Config)]}
                   ELSE Registered
            /\ UNCHANGED ProjectDbs
            /\ UNCHANGED exceptDatabase

InitDatabase ==
    ParserIdle /\ CallsIdle /\ DatabaseIdle /\ ProjectIdle /\ GitHubIdle /\ EditorIdle

NextDatabase == InitializeProjectDatabaseCall \/ RegisterProjectCall

SpecDatabase == InitDatabase /\ [][NextDatabase]_vars

\* C18: a call of InitializeProjectDatabase on a path whose file holds no
\* project database returns True and leaves the five tables, a ProjectConfig
\* row with the key ProjectName, a ProjectState row and a Documentation row.
C18_FreshDatabase ==
    [][\A DbPath \in DbPaths :
          (/\ DbCall'.op = "InitializeProjectDatabase"
           /\ DbCall'.path = DbPath
           /\ ProjectDbs[DbPath] = EmptyDb)
              => /\ DbCall'.result
                 /\ ProjectTables \subseteq ProjectDbs'[DbPath].tables
                 /\ \E r \in RowsOf(ProjectDbs'[DbPath], "ProjectConfig") :
                        r.key = "ProjectName"
                 /\ RowsOf(ProjectDbs'[DbPath], "ProjectState") # {}
                 /\ RowsOf(ProjectDbs'[DbPath], "Documentation") # {}]_vars

\* C19: the hub database holds the project table and exactly one row for
\* every ProjectName registered with True, with the Description and path of
\* the latest such call, and no other row.
C19_Registry ==
    Registered # {} =>
        /\ "project" \in HubDb.tables
        /\ \A g \in Registered :
              Cardinality({r \in RowsOf(HubDb, "project") : r.key = g.name}) = 1
        /\ {[name |-> r.key, description |-> r.value[1], path |-> r.value[2]]
               : r \in RowsOf(HubDb, "project")} = Registered

\* ---------------------------------------------------- ProjectInitializer

StrDirectories == <<68, 105, 114, 101, 99, 116, 111, 114, 105, 101, 115>>
StrDotGit == <<46, 103, 105, 116>>
StrProjectDb == <<97, 108, 112, 104, 97, 46, 100, 98>>
StrHubLink == <<72, 105, 109, 97, 108, 97, 121, 97, 46, 100, 98>>

\* The template files CreateInitialFiles looks for.
TemplateNames == {"README.md.template", "LICENSE.template", "gitignore.template"}

\* The path SetupDatabase hands to InitializeProjectDatabase.
ProjectDbPath == [dir |-> "Directories", file |-> "project.db"]

\* The DirectoryStructure values of the config: nested directories; a hidden
\* name and a file name, each with a child; README.md with a child next to
\* LICENSE; LICENSE with a child; .gitignore.
ConfigStructures ==
    { <<<<NameA>>, <<NameA, NameB>>, <<NameB>>>>,
      <<<<NameHidden>>, <<NameHidden, NameB>>, <<NameFile>>, <<NameFile, NameA>>,
        <<NameA>>>>,
      <<<<StrReadme>>, <<StrReadme, NameA>>, <<StrLicense>>, <<NameA>>>>,
      <<<<StrLicense>>, <<StrLicense, NameA>>>>,
      <<<<StrGitignore>>, <<NameA>>>> }

\* The DefaultStructure values of the configuration: none, a listing like
\* that of ConfigManager.GetDefaultStructure, and indented text.
DefaultTexts ==
    { PyNone,
      PyStr(JoinLines(<<<<DOT>>, ConnTee \o NameA, ConnTee \o StrLicense,
                        ConnTee \o StrReadme, ConnElbow \o NameB>>)),
      PyStr(JoinLines(<<NameA, <<SP, SP>> \o NameB>>)) }

\* The arguments of InitializeProject.
InitConfigs ==
    [ProjectName : {"alpha"}, Description : {"one"}, ProjectPath : {"", "/p"},
     GitHubAccount : {"acct"}, RepositoryName : {"repo"},
     GitHubPAT : {"", "token"},
     DirectoryStructure : ConfigStructures \cup {<<>>}]

\* The name of an entry has no dot.
NoDot(Name) == ~Contains(Name, DOT)

\* Every name with a dot is taken for a file.
SkipsEntryAnyDot(Name) == Contains(Name, DOT)

\* Line 133: "if '.' in Name and not Name.startswith('.')".
SkipsEntry(Name) == Contains(Name, DOT) /\ ~StartsWithAt(Name, 0, <<DOT>>)

\* The directory that holds the path p.
ParentOf(p) == SubSeq(p, 1, Len(p) - 1)

\* Path.mkdir(exist_ok=True): ok becomes FALSE (FileExistsError,
\* FileNotFoundError) when p is a file or the parent of p is no directory.
Mkdir(fs, p) ==
    IF ~fs.ok \/ p \in fs.Dirs THEN fs
    ELSE IF (\E f \in fs.Files : f.path = p)
            \/ (p # <<>> /\ ParentOf(p) \notin fs.Dirs)
    THEN [fs EXCEPT !.ok = FALSE]
    ELSE [fs EXCEPT !.Dirs = @ \cup {p}]

\* open(p, 'w') and write: ok becomes FALSE (IsADirectoryError,
\* FileNotFoundError) when p is a directory or its parent is none.
WriteFile(fs, p, Text) ==
    IF ~fs.ok THEN fs
    ELSE IF p \in fs.Dirs \/ ParentOf(p) \notin fs.Dirs
    THEN [fs EXCEPT !.ok = FALSE]
    ELSE [fs EXCEPT !.Files = {f \in @ : f.path # p}
                                  \cup {[path |-> p, content |-> Text]}]

\* Removal of a directory together with everything below it.
RmdirTree(fs, p) ==
    IF ~fs.ok THEN fs
    ELSE [fs EXCEPT !.Dirs = {d \in @ : d # p /\ ~IsBelow(d, p)},
                    !.Files = {f \in @ : ~IsBelow(f.path, p)}]

\* os.rmdir(p): ok becomes FALSE (OSError) when the directory is not empty.
Rmdir(fs, p) ==
    IF ~fs.ok THEN fs
    ELSE IF (\E d \in fs.Dirs : IsBelow(d, p))
            \/ (\E f \in fs.Files : IsBelow(f.path, p))
    THEN [fs EXCEPT !.ok = FALSE]
    ELSE [fs EXCEPT !.Dirs = @ \ {p}]

\* 'except Exception: print(...)' around an operation that failed without
\* changing anything.
Swallowed(fs) == [fs EXCEPT !.ok = TRUE]

\* Lines 119-142: a directory for every entry that is not skipped, and for
\* the entries below it.
RECURSIVE CreateDirectories(_, _, _)
RECURSIVE CreateEach(_, _, _, _, _)
CreateEach(fs, S, CurrentPath, Keys, i) ==
    IF i > Len(Keys) \/ ~fs.ok THEN fs
    ELSE LET Name    == Keys[i]
             NewPath == Append(CurrentPath, Name)
             Made    == Mkdir(fs, NewPath)
             Sub     == Children(S, Name)
         IN  IF SkipsEntry(Name) THEN CreateEach(fs, S, CurrentPath, Keys, i + 1)
             ELSE CreateEach(IF Sub # <<>> THEN CreateDirectories(Made, Sub, NewPath)
                             ELSE Made,
                             S, CurrentPath, Keys, i + 1)

CreateDirectories(fs, S, CurrentPath) ==
    CreateEach(fs, S, CurrentPath, KeysInOrder(S), 1)

\* Lines 252-291: the README is written without a try.
CreateDefaultReadme(fs) == WriteFile(fs, <<StrReadme>>, "default")

\* Lines 293-331: a LICENSE directory is removed when it is empty; when it
\* is not, the function returns without writing; a failing write is printed.
CreateDefaultLicense(fs) ==
    LET Removed == IF <<StrLicense>> \in fs.Dirs THEN Rmdir(fs, <<StrLicense>>) ELSE fs
    IN  IF ~Removed.ok THEN fs
        ELSE Swallowed(WriteFile(Removed, <<StrLicense>>, "default"))

\* Lines 333-400: the .gitignore is written without a try.
CreateDefaultGitignore(fs) == WriteFile(fs, <<StrGitignore>>, "default")

\* Lines 205-250: the hardcoded default when the template is missing, else
\* the substituted template, written inside a try that prints the error.
CreateFileFromTemplate(fs, Present, Template, Output) ==
    IF ~fs.ok THEN fs
    ELSE IF Template \notin Present
    THEN (IF Template = "README.md.template" THEN CreateDefaultReadme(fs)
          ELSE IF Template = "LICENSE.template" THEN CreateDefaultLicense(fs)
          ELSE IF Template = "gitignore.template" THEN CreateDefaultGitignore(fs)
          ELSE fs)
    ELSE Swallowed(WriteFile(fs, <<Output>>, "template"))

\* The initial files, with the project directory removed again when one of
\* them cannot be written.
WriteInitialFilesOrUndo(fs, Present) ==
    LET a == CreateFileFromTemplate(fs, Present, "README.md.template", StrReadme)
        b == CreateFileFromTemplate(a, Present, "LICENSE.template", StrLicense)
        c == CreateFileFromTemplate(b, Present, "gitignore.template", StrGitignore)
        r == WriteFile(c, <<StrRequirements>>, "requirements")
    IN  IF r.ok THEN r
        ELSE [RmdirTree(Swallowed(r), <<>>) EXCEPT !.ok = FALSE]

\* Lines 165-203: README.md, LICENSE, .gitignore, then requirements.txt
\* written without a try.
WriteInitialFiles(fs, Present) ==
    LET a == CreateFileFromTemplate(fs, Present, "README.md.template", StrReadme)
        b == CreateFileFromTemplate(a, Present, "LICENSE.template", StrLicense)
        c == CreateFileFromTemplate(b, Present, "gitignore.template", StrGitignore)
    IN  WriteFile(c, <<StrRequirements>>, "requirements")

\* Lines 410-446 with GitHubManager.PushToRemote: nothing when 'git init'
\* fails; else init, add, commit, the public origin when account and
\* repository are given, and with a token the push, which leaves the token
\* URL in place when 'git push' fails.
GitAfter(Works, Config) ==
    IF Works = "no" THEN NoRepository
    ELSE LET HasRemote == Config.GitHubAccount # "" /\ Config.RepositoryName # ""
             Pushes    == HasRemote /\ Config.GitHubPAT # ""
         IN  [initialized |-> TRUE, committed |-> TRUE,
              origin |-> IF ~HasRemote THEN "none"
                         ELSE IF Pushes /\ Works = "local" THEN "token"
                         ELSE "public",
              pushed |-> Pushes /\ Works = "push"]

\* An operation of the call and whether it succeeded.
Step(op, ok) == [op |-> op, ok |-> ok]

\* Lines 410-446: the git commands InitializeGit and PushToRemote run, in
\* order, up to the first that fails.
GitSteps(Works, Config) ==
    LET HasRemote == Config.GitHubAccount # "" /\ Config.RepositoryName # ""
        Pushes    == HasRemote /\ Config.GitHubPAT # ""
    IN  IF Works = "no" THEN <<Step("git init", FALSE)>>
        ELSE <<Step("git init", TRUE), Step("git add", TRUE),
               Step("git commit", TRUE)>>
             \o (IF HasRemote THEN <<Step("git remote add", TRUE)>> ELSE <<>>)
             \o (IF Pushes THEN <<Step("git push", Works = "push")>> ELSE <<>>)

\* The file system of the project directory as the operators take it.
FileSystem == [ok |-> TRUE, Dirs |-> Dirs, Files |-> Files]

\* The call returns False: at line 61 or 70, or from the except clause of
\* line 92.
ReturnFalse ==
    /\ ipc' = "returned"
    /\ InitResult' = "False"

\* The existence check left out.
ExistsNever(D) == FALSE

\* Line 68: FullProjectPath.exists() with the directories D on disk.
Exists(D) == <<>> \in D

\* Lines 56-73: the checks and the project directory.
InitializeProject ==
    /\ ipc = "call"
    /\ IF ProjectConfig.ProjectPath = "" \/ Exists(Dirs)
       THEN ReturnFalse /\ UNCHANGED <<Dirs, Steps>>
       ELSE /\ Dirs' = Dirs \cup {<<>>}
            /\ Steps' = Append(Steps, Step("mkdir", TRUE))
            /\ ipc' = "structure"
            /\ UNCHANGED InitResult
    /\ UNCHANGED <<ProjectConfig, DefaultStructure, Templates, GitWorks, Files,
                   Git, StructureUsed, Runs>>
    /\ UNCHANGED databaseVars
    /\ UNCHANGED exceptProject

\* Lines 96-117, called at line 76.
CreateDirectoryStructure ==
    /\ ipc = "structure"
    /\ LET Parsed == ParseStructure(DefaultStructure)
           S      == IF ProjectConfig.DirectoryStructure # <<>>
                     THEN ProjectConfig.DirectoryStructure
                     ELSE Parsed.value
           fs     == Mkdir(CreateDirectories(FileSystem, S, <<>>), <<StrDirectories>>)
           ok     == fs.ok /\ (ProjectConfig.DirectoryStructure # <<>> \/ Parsed.ok)
       IN  /\ StructureUsed' = S
           /\ Dirs' = fs.Dirs
           /\ Files' = fs.Files
           /\ Steps' = Append(Steps, Step("CreateDirectoryStructure", ok))
           /\ IF ok
              THEN ipc' = "database" /\ UNCHANGED InitResult
              ELSE ReturnFalse
    /\ UNCHANGED <<ProjectConfig, DefaultStructure, Templates, GitWorks, Git, Runs>>
    /\ UNCHANGED databaseVars
    /\ UNCHANGED exceptProject

\* Lines 144-163, called at line 79: the project database and the link to
\* the hub database; the return values of both calls are dropped.
SetupDatabase ==
    /\ ipc = "database"
    /\ LET made   == Mkdir(FileSystem, <<StrDirectories>>)
           r      == InitializeProjectDatabase(ProjectDbs[ProjectDbPath],
                                               ProjectDbPath, ProjectConfig)
           dbfile == WriteFile(made, <<StrDirectories, StrProjectDb>>, "database")
           link   == WriteFile(dbfile, <<StrDirectories, StrHubLink>>, "link")
       IN  /\ ProjectDbs' = [ProjectDbs EXCEPT ![ProjectDbPath] = r.db]
           /\ DbCall' = [op |-> "CreateDatabaseLink", path |-> HubPath,
                         result |-> link.ok]
           /\ Dirs' = link.Dirs
           /\ Files' = link.Files
           /\ Steps' = Steps \o <<Step("InitializeProjectDatabase", r.ok),
                                  Step("CreateDatabaseLink", link.ok)>>
           /\ IF made.ok THEN ipc' = "files" /\ UNCHANGED InitResult
              ELSE ReturnFalse
    /\ UNCHANGED <<HubDb, Registered>>
    /\ UNCHANGED <<ProjectConfig, DefaultStructure, Templates, GitWorks, Git,
                   StructureUsed, Runs>>
    /\ UNCHANGED exceptProject

\* Lines 165-203, called at line 82.
CreateInitialFiles ==
    /\ ipc = "files"
    /\ LET fs == WriteInitialFiles(FileSystem, Templates)
       IN  /\ Dirs' = fs.Dirs
           /\ Files' = fs.Files
           /\ Steps' = Append(Steps, Step("CreateInitialFiles", fs.ok))
           /\ IF fs.ok THEN ipc' = "git" /\ UNCHANGED InitResult
              ELSE ReturnFalse
    /\ UNCHANGED <<ProjectConfig, DefaultStructure, Templates, GitWorks, Git,
                   StructureUsed, Runs>>
    /\ UNCHANGED databaseVars
    /\ UNCHANGED exceptProject

\* Lines 402-446, called at line 85: every error is printed and dropped.
InitializeGit ==
    /\ ipc = "git"
    /\ Git' = GitAfter(GitWorks, ProjectConfig)
    /\ Dirs' = IF GitWorks = "no" THEN Dirs ELSE Dirs \cup {<<StrDotGit>>}
    /\ Steps' = Steps \o GitSteps(GitWorks, ProjectConfig)
    /\ ipc' = "register"
    /\ UNCHANGED <<ProjectConfig, DefaultStructure, Templates, GitWorks, Files,
                   StructureUsed, InitResult, Runs>>
    /\ UNCHANGED databaseVars
    /\ UNCHANGED exceptProject

\* Lines 448-455, called at line 88, and the return of line 90.
InitializerRegisterProject ==
    /\ ipc = "register"
    /\ \E Uuid \in UuidValues :
          LET r == RegisterProject(HubDb, ProjectConfig, Uuid)
          IN  /\ HubDb' = r.db
              /\ DbCall' = [op |-> "RegisterProject", path |-> HubPath,
                            result |-> r.ok]
              /\ Registered' =
                     {g \in Registered : g.name # ProjectConfig.ProjectName}
                         \cup {[name |-> ProjectConfig.ProjectName,
                                description |-> ProjectConfig.Description,
                                path |-> FullPath(ProjectConfig)]}
              /\ Steps' = Append(Steps, Step("RegisterProject", r.ok))
    /\ ipc' = "returned"
    /\ InitResult' = "True"
    /\ UNCHANGED ProjectDbs
    /\ UNCHANGED <<ProjectConfig, DefaultStructure, Templates, GitWorks, Dirs,
                   Files, Git, StructureUsed, Runs>>
    /\ UNCHANGED exceptProject

\* InitializeProject is about to be called: any config, default structure,
\* set of templates and git behaviour; the project directory exists already
\* or not.
InitProject ==
    /\ ParserIdle /\ CallsIdle /\ DatabaseIdle /\ GitHubIdle /\ EditorIdle
    /\ ProjectConfig \in InitConfigs
    /\ DefaultStructure \in DefaultTexts
    /\ Templates \in SUBSET TemplateNames
    /\ GitWorks \in {"no", "local", "push"}
    /\ Dirs \in {{}, {<<>>}}
    /\ Files = {}
    /\ Git = NoRepository
    /\ StructureUsed = <<>>
    /\ ipc = "call"
    /\ InitResult = "none"
    /\ Steps = <<>>
    /\ Runs = 1

\* The number of InitializeProject calls made on the initializer.
MaxRuns == 2

\* A later InitializeProject call on the same initializer and disk, for the
\* same project under the same or another ProjectPath.
InitializeProjectAgain ==
    /\ ipc = "returned"
    /\ Runs < MaxRuns
    /\ \E ProjectPath \in {Config.ProjectPath : Config \in InitConfigs} :
          ProjectConfig' = [ProjectConfig EXCEPT !.ProjectPath = ProjectPath]
    /\ ipc' = "call"
    /\ InitResult' = "none"
    /\ Steps' = <<>>
    /\ Runs' = Runs + 1
    /\ UNCHANGED <<DefaultStructure, Templates, GitWorks, Dirs, Files, Git,
                   StructureUsed>>
    /\ UNCHANGED databaseVars
    /\ UNCHANGED exceptProject

NextProject ==
    \/ InitializeProjectAgain
    \/ InitializeProject
    \/ CreateDirectoryStructure
    \/ SetupDatabase
    \/ CreateInitialFiles
    \/ InitializeGit
    \/ InitializerRegisterProject

SpecProject == InitProject /\ [][NextProject]_vars

\* The entries of S that CreateDirectories reaches: no name on the path is
\* skipped.
ReachedEntries(S) ==
    {p \in Tree(S) : \A k \in 1..Len(p) : NoDot(p[k]) \/ StartsWithAt(p[k], 0, <<DOT>>)}

\* The entries of S with a dot-free name under dot-free names only.
DotFreeEntries(S) == {p \in Tree(S) : \A k \in 1..Len(p) : NoDot(p[k])}

\* CreateDirectoryStructure has just returned.
DirectoriesCreated == ipc = "database"

\* C15 as stated: the directories made are exactly those of the entries
\* with a dot-free name under dot-free names; a name with a dot, a leading
\* dot included, makes none.
C15_DotFreeOnly ==
    DirectoriesCreated =>
        Dirs = {<<>>, <<StrDirectories>>} \cup DotFreeEntries(StructureUsed)

\* C15 amended: CreateDirectories makes a directory for exactly the entries
\* whose name has no dot or starts with a dot, recursing only into those;
\* an entry whose name has a dot that is not its first character makes
\* nothing and its children are ignored.
C15_HiddenToo ==
    DirectoriesCreated =>
        Dirs = {<<>>, <<StrDirectories>>} \cup ReachedEntries(StructureUsed)

\* The structure had a hidden name and a file name, each with a child.
C15_Witness ==
    /\ DirectoriesCreated
    /\ \E p, q \in Tree(StructureUsed) :
          /\ Len(p) = 2 /\ StartsWithAt(p[1], 0, <<DOT>>) /\ p \in Dirs
          /\ Len(q) = 2 /\ SkipsEntry(q[1]) /\ q \notin Dirs

\* InitializeProject returned True.
ReturnedTrue == ipc = "returned" /\ InitResult = "True"

\* The entry p is a top-level LICENSE without children and the LICENSE
\* template is missing: CreateDefaultLicense puts the file in its place.
LicenseReplaced(p) ==
    /\ p = <<StrLicense>>
    /\ "LICENSE.template" \notin Templates
    /\ ~\E q \in Tree(StructureUsed) : IsBelow(q, p)

C17_BoilerplateFiles ==
    ReturnedTrue =>
        \A Name \in {StrReadme, StrLicense, StrGitignore} :
            /\ <<Name>> \notin Dirs
            /\ \E f \in Files : f.path = <<Name>> /\ f.content \in {"default", "template"}

\* The operation op is among the steps of the call and succeeded.
Succeeded(op) == \E i \in 1..Len(Steps) : Steps[i].op = op /\ Steps[i].ok

\* The steps of an initialization: the project directory, the directory
\* structure, the project database, the link to the hub database, the
\* initial files, the git repository with its first commit, the registration.
RequiredSteps ==
    <<"mkdir", "CreateDirectoryStructure", "InitializeProjectDatabase",
      "CreateDatabaseLink", "CreateInitialFiles", "git init", "git add",
      "git commit", "RegisterProject">>

\* README.md, LICENSE, .gitignore and requirements.txt are files of the
\* project directory.
InitialFilesWritten ==
    \A Name \in {StrReadme, StrLicense, StrGitignore, StrRequirements} :
        \E f \in Files : f.path = <<Name>>

\* Every step of the initialization was made and succeeded.
EveryStepSucceeded ==
    /\ \A k \in 1..Len(RequiredSteps) : Succeeded(RequiredSteps[k])
    /\ InitialFilesWritten

\* C21: InitializeProject returns True if and only if every step succeeded:
\* the directory structure, the project database, the hub-database link,
\* the initial files, the git repository with its commit and the
\* registration; when one of them fails it returns False.
C21_TrueIffSuccessful ==
    ipc = "returned" => (InitResult = "True" <=> EveryStepSucceeded)

\* The steps of the call that are among RequiredSteps, in the order made.
RequiredStepsMade ==
    LET Made == SelectSeq(Steps, LAMBDA st :
                    \E k \in 1..Len(RequiredSteps) : RequiredSteps[k] = st.op)
    IN  [i \in 1..Len(Made) |-> Made[i].op]

\* C22: in a call that returns True the steps are made in the order project
\* directory, directory structure, InitializeProjectDatabase,
\* CreateDatabaseLink, initial files, git init, add and commit,
\* RegisterProject, each once, and at the registration the directories, the
\* project database and the files exist.
C22_StepOrder ==
    ReturnedTrue =>
        /\ RequiredStepsMade = RequiredSteps
        /\ {<<>>, <<StrDirectories>>} \subseteq Dirs
        /\ ProjectDbs[ProjectDbPath].tables # {}
        /\ \E f \in Files : f.path = <<StrDirectories, StrProjectDb>>
        /\ \A Name \in {StrReadme, StrLicense, StrGitignore, StrRequirements} :
              <<Name>> \in Dirs \/ \E f \in Files : f.path = <<Name>>

\* C25: a call whose config has no ProjectPath, or whose project directory
\* exists already, returns False and changes no directory, file, project
\* database, git repository or hub-database row; a call for the same
\* ProjectPath and ProjectName after one that returned True is such a call.
C25_RejectedNoEffect ==
    [][ /\ (ipc = "call" /\ (ProjectConfig.ProjectPath = "" \/ <<>> \in Dirs)) =>
              /\ ipc' = "returned"
              /\ InitResult' = "False"
              /\ UNCHANGED <<Dirs, Files, Git, ProjectDbs, HubDb, Registered>>
        /\ (ReturnedTrue /\ ipc' = "call"
                /\ ProjectConfig'.ProjectPath = ProjectConfig.ProjectPath
                /\ ProjectConfig'.ProjectName = ProjectConfig.ProjectName) =>
              /\ <<>> \in Dirs'
              /\ UNCHANGED <<Dirs, Files, Git, ProjectDbs, HubDb, Registered>>
      ]_vars

\* A second call for the project that the first call created and registered
\* has returned False without making a step.
C25_Witness ==
    /\ Runs = 2
    /\ ipc = "returned"
    /\ InitResult = "False"
    /\ Steps = <<>>
    /\ ProjectConfig.ProjectPath # ""
    /\ Registered # {}
    /\ Git.committed
    /\ Files # {}

\* PushToRemote was called and has returned.
PushReturned == \E i \in 1..Len(Steps) : Steps[i].op = "git push"

\* C26: whenever PushToRemote has returned, with True or with False, the
\* URL of the remote origin is the public URL, and at no time after it does
\* the repository configuration hold the URL with the token.
C26_OriginPublic ==
    /\ PushReturned => Git.origin = "public"
    /\ (ipc \in {"register", "returned"}) => Git.origin # "token"

\* The paths that exist in the project directory, as directory or as file.
Entries(D, F) == D \cup {f.path : f \in F}

GitHubAccounts == {"acct"}
RepoNames == {"repo", "other"}

\* The Token argument and Config.GetGitHubToken(): "" is a falsy value (None
\* or the empty string).
TokenArguments == {"", "pat"}
ConfigTokens == {"", "envpat"}

\* Response.status_code of a response requests.get returned.
StatusCodes == {200, 201, 301, 403, 404, 500}

\* What Response.json() gives: "invalid" is a body that is not JSON (json()
\* raises), "list" a JSON array, the others a JSON object without 'size', with
\* 'size' null, with a string, with a number.
RepoSizes == {0, 1, 100}
Bodies ==
    [kind : {"invalid", "list", "no_size", "null_size", "str_size"}, size : {0}]
        \cup [kind : {"int_size"}, size : RepoSizes]

\* Lines 45-47: the token from the configuration when none is given.
\* GetGitHubToken only reads a dict and the environment.
TokenUsed(Token, ConfigToken) == IF Token = "" THEN ConfigToken ELSE Token

\* Lines 49-52.
AuthorizationHeader(Token) == IF Token = "" THEN <<>> ELSE <<"token", Token>>

\* Line 55.
RepositoryUrl(Account, RepoName) == <<"https://api.github.com/repos", Account, RepoName>>

\* RepoData.get('size', 0) > 0 raises for a JSON array (no get), for null and
\* for a string (no order with int).
SizeTestRaises(body) == body.kind \in {"list", "null_size", "str_size"}

\* RepoData.get('size', 0)
SizeOrDefault(body) == IF body.kind = "int_size" THEN body.size ELSE 0

IsNotEmptyAtZero(size) == size >= 0

\* Line 74: ... > 0
IsNotEmpty(size) == size > 0

\* Lines 56-90: the Status of the dict returned for the outcome of
\* requests.get; every exception inside the try gives 'Error'.
StatusFor(raises, status_code, body) ==
    IF raises THEN "Error"
    ELSE IF status_code = 404 THEN "NotFound"
    ELSE IF status_code # 200 THEN "Error"
    ELSE IF body.kind = "invalid" THEN "Error"
    ELSE IF SizeTestRaises(body) THEN "Error"
    ELSE IF IsNotEmpty(SizeOrDefault(body)) THEN "NotEmpty"
    ELSE "Valid"

\* GitHubManager.ValidateRepository(Account, RepoName, Token), the whole call:
\* requests.get raises or returns a response with any status code and body.
ValidateRepository ==
    /\ ~Validation.called
    /\ \E Account \in GitHubAccounts, RepoName \in RepoNames,
          Token \in TokenArguments, ConfigToken \in ConfigTokens,
          raises \in BOOLEAN, status_code \in StatusCodes, body \in Bodies :
          /\ raises => (status_code = 200 /\ body = [kind |-> "invalid", size |-> 0])
          /\ Lookup' = [Account |-> Account, RepoName |-> RepoName,
                        Token |-> Token, ConfigToken |-> ConfigToken,
                        Url |-> RepositoryUrl(Account, RepoName),
                        Authorization |-> AuthorizationHeader(TokenUsed(Token, ConfigToken)),
                        raises |-> raises,
                        status_code |-> IF raises THEN 0 ELSE status_code,
                        body |-> IF raises THEN NoBody ELSE body]
          /\ Validation' = [called |-> TRUE, raised |-> FALSE,
                            Status |-> StatusFor(raises, status_code, body)]
    /\ UNCHANGED exceptGitHub

InitGitHub ==
    ParserIdle /\ CallsIdle /\ DatabaseIdle /\ ProjectIdle /\ GitHubIdle /\ EditorIdle

NextGitHub == ValidateRepository

SpecGitHub == InitGitHub /\ [][NextGitHub]_vars

\* The response is HTTP 200 with a JSON object whose size is the number n.
OkWithSize(n) ==
    /\ ~Lookup.raises
    /\ Lookup.status_code = 200
    /\ Lookup.body = [kind |-> "int_size", size |-> n]

\* The response is HTTP 200 with a JSON object that has no 'size'.
OkWithoutSize ==
    /\ ~Lookup.raises
    /\ Lookup.status_code = 200
    /\ Lookup.body.kind = "no_size"

\* requests.get, Response.json() or the size test raised.
LookupRaised ==
    \/ Lookup.raises
    \/ /\ Lookup.status_code = 200
       /\ Lookup.body.kind \in {"invalid", "list", "null_size", "str_size"}

\* C20: a ValidateRepository call never raises and returns one of the four
\* statuses: 'NotFound' exactly for HTTP 404, 'NotEmpty' exactly for HTTP 200
\* with a size above 0, 'Valid' exactly for HTTP 200 with size 0 or no size,
\* and 'Error' for every other status code and every exception.
C20_StatusOfLookup ==
    Validation.called =>
        /\ ~Validation.raised
        /\ Validation.Status \in {"NotFound", "NotEmpty", "Valid", "Error"}
        /\ Validation.Status = "NotFound"
               <=> (~Lookup.raises /\ Lookup.status_code = 404)
        /\ Validation.Status = "NotEmpty"
               <=> \E n \in RepoSizes : n > 0 /\ OkWithSize(n)
        /\ Validation.Status = "Valid" <=> (OkWithSize(0) \/ OkWithoutSize)
        /\ Validation.Status = "Error"
               <=> (LookupRaised \/ (~Lookup.raises /\ Lookup.status_code \notin {200, 404}))

\* A call met a repository of size 100 and returned 'NotEmpty'.
C20_Witness ==
    /\ Validation.called
    /\ OkWithSize(100)
    /\ Validation.Status = "NotEmpty"

\* ----------------------------------------------------------- DirectoryEditor

\* The number of items created since the model was last cleared.
MaxItems == 3

\* The texts the model is built from: listings like the default one, indented
\* text, one name and the empty file.
EditorTexts ==
    { PyStr(JoinLines(<<<<DOT>>, ConnTee \o NameA, ConnElbow \o NameB>>)),
      PyStr(JoinLines(<<NameA, <<SP, SP>> \o NameB>>)),
      PyStr(NameA),
      PyStr(<<>>) }

\* What QInputDialog.getText returns as text: nothing, a or b.
DialogTexts == {<<>>, NameA, NameB}

\* Lines 160-167: an item per entry of the mapping S, appended to the item
\* of the entry above it, in the order of the mapping.
BuildDirectoryTree(S) ==
    { [id |-> i,
       parent |-> IF Len(S[i]) = 1 THEN 0
                  ELSE CHOOSE j \in 1..Len(S) : S[j] = SubSeq(S[i], 1, Len(S[i]) - 1),
       text |-> S[i][Len(S[i])]] : i \in 1..Len(S) }

\* ParentItem.child(Row) for every row of the item Parent.
ChildItems(Its, Parent) == {x \in Its : x.parent = Parent}

\* The item and every item below it, which removeRow deletes with it.
RECURSIVE ItemsBelow(_, _)
ItemsBelow(Its, Item) ==
    {Item} \cup UNION {ItemsBelow(Its, c.id) : c \in ChildItems(Its, Item)}

\* The duplicate check left out.
FolderExistsNever(Its, Parent, FolderName) == FALSE

\* Lines 186-189: a child of ParentItem has the text FolderName.
FolderExists(Its, Parent, FolderName) ==
    \E c \in ChildItems(Its, Parent) : c.text = FolderName

\* Lines 269-273: a child of the parent other than the selected item has the
\* text NewName.
NameExists(Its, Item, NewName) ==
    \E x \in Its : x.id = Item /\
        \E c \in ChildItems(Its, x.parent) : c.id # Item /\ c.text = NewName

\* Lines 307-313: the entries of the mapping filled from the rows of Parent;
\* a text met again replaces the value stored for it.
RECURSIVE ExtractStructure(_, _)
ExtractStructure(Its, Parent) ==
    LET Kids     == ChildItems(Its, Parent)
        Stored(t) == CHOOSE c \in Kids :
                        c.text = t /\ \A e \in Kids : e.text = t => e.id <= c.id
    IN  UNION { {<<t>>} \cup {<<t>> \o q : q \in ExtractStructure(Its, Stored(t).id)}
                : t \in {c.text : c \in Kids} }

\* The record of a handler that ran; Configuration holds what the handler
\* returned, the empty set for a handler that returns None.
Handled(op, item, ok, name, outcome) ==
    [op |-> op, item |-> item, ok |-> ok, name |-> name, outcome |-> outcome]

\* selectedIndexes(): the id of the selected item, 0 when none is selected.
Selections == {0} \cup {x.id : x \in Items}

\* Lines 170-198: AddFolder.  QLineEdit is not imported by the module: when
\* it is not bound the call raises NameError before the dialog.
AddFolder ==
    /\ \E Sel \in Selections, Ok \in BOOLEAN, FolderName \in DialogTexts :
          IF ~NamesBound
          THEN /\ ~Ok /\ FolderName = <<>>
               /\ EditorCall' = Handled("AddFolder", Sel, FALSE, <<>>, "raised")
               /\ UNCHANGED <<Items, LastItem>>
          ELSE IF ~Ok \/ FolderName = <<>>
          THEN /\ EditorCall' = Handled("AddFolder", Sel, Ok, FolderName, "cancelled")
               /\ UNCHANGED <<Items, LastItem>>
          ELSE IF FolderExists(Items, Sel, FolderName)
          THEN /\ EditorCall' = Handled("AddFolder", Sel, Ok, FolderName, "rejected")
               /\ UNCHANGED <<Items, LastItem>>
          ELSE /\ LastItem < MaxItems
               /\ Items' = Items \cup {[id |-> LastItem + 1, parent |-> Sel,
                                        text |-> FolderName]}
               /\ LastItem' = LastItem + 1
               /\ EditorCall' = Handled("AddFolder", Sel, Ok, FolderName, "added")
    /\ Configuration' = {}
    /\ UNCHANGED NamesBound
    /\ UNCHANGED exceptEditor

\* Lines 200-222: RemoveFolder.  Without a selection ShowError is called,
\* which raises NameError after setting the label when QTimer is not bound.
RemoveFolder ==
    /\ \E Sel \in Selections, Yes \in BOOLEAN :
          IF Sel = 0
          THEN /\ ~Yes
               /\ EditorCall' = Handled("RemoveFolder", Sel, FALSE, <<>>,
                                        IF NamesBound THEN "rejected" ELSE "raised")
               /\ UNCHANGED Items
          ELSE IF ~Yes
          THEN /\ EditorCall' = Handled("RemoveFolder", Sel, FALSE, <<>>, "cancelled")
               /\ UNCHANGED Items
          ELSE /\ Items' = {x \in Items : x.id \notin ItemsBelow(Items, Sel)}
               /\ EditorCall' = Handled("RemoveFolder", Sel, TRUE, <<>>, "removed")
    /\ Configuration' = {}
    /\ UNCHANGED <<LastItem, NamesBound>>
    /\ UNCHANGED exceptEditor

\* Lines 249-277: RenameFolder.
RenameFolder ==
    /\ \E Sel \in Selections, Ok \in BOOLEAN, NewName \in DialogTexts :
          IF Sel = 0
          THEN /\ ~Ok /\ NewName = <<>>
               /\ EditorCall' = Handled("RenameFolder", Sel, FALSE, <<>>, "cancelled")
               /\ UNCHANGED Items
          ELSE IF ~NamesBound
          THEN /\ ~Ok /\ NewName = <<>>
               /\ EditorCall' = Handled("RenameFolder", Sel, FALSE, <<>>, "raised")
               /\ UNCHANGED Items
          ELSE IF ~Ok \/ NewName = <<>>
          THEN /\ EditorCall' = Handled("RenameFolder", Sel, Ok, NewName, "cancelled")
               /\ UNCHANGED Items
          ELSE IF NameExists(Items, Sel, NewName)
          THEN /\ EditorCall' = Handled("RenameFolder", Sel, Ok, NewName, "rejected")
               /\ UNCHANGED Items
          ELSE /\ Items' = {IF x.id = Sel THEN [x EXCEPT !.text = NewName] ELSE x
                               : x \in Items}
               /\ EditorCall' = Handled("RenameFolder", Sel, Ok, NewName, "renamed")
    /\ Configuration' = {}
    /\ UNCHANGED <<LastItem, NamesBound>>
    /\ UNCHANGED exceptEditor

\* Lines 131-158: LoadFromFile: no file chosen, or the model cleared and
\* built from the parsed content of the file.
LoadFromFile ==
    /\ \E Chosen \in BOOLEAN, Text \in EditorTexts :
          IF ~Chosen
          THEN /\ Text = PyStr(<<>>)
               /\ EditorCall' = Handled("LoadFromFile", 0, FALSE, <<>>, "cancelled")
               /\ UNCHANGED <<Items, LastItem>>
          ELSE \E S \in {ParseStructure(Text).value} :
                  /\ Items' = BuildDirectoryTree(S)
                  /\ LastItem' = Len(S)
                  /\ EditorCall' = Handled("LoadFromFile", 0, TRUE, Text.chars, "loaded")
    /\ Configuration' = {}
    /\ UNCHANGED NamesBound
    /\ UNCHANGED exceptEditor

\* Lines 297-305: GetConfiguration.
GetConfiguration ==
    /\ Configuration' = ExtractStructure(Items, 0)
    /\ EditorCall' = Handled("GetConfiguration", 0, TRUE, <<>>, "returned")
    /\ UNCHANGED <<Items, LastItem, NamesBound>>
    /\ UNCHANGED exceptEditor

\* The editor after __init__: the model built from a parsed text.
InitEditor ==
    /\ ParserIdle /\ CallsIdle /\ DatabaseIdle /\ ProjectIdle /\ GitHubIdle
    /\ NamesBound \in BOOLEAN
    /\ \E Text \in EditorTexts : \E S \in {ParseStructure(Text).value} :
          /\ Items = BuildDirectoryTree(S)
          /\ LastItem = Len(S)
          /\ EditorCall = Handled("LoadDefaultStructure", 0, TRUE, Text.chars, "loaded")
    /\ Configuration = {}

NextEditor ==
    AddFolder \/ RemoveFolder \/ RenameFolder \/ LoadFromFile \/ GetConfiguration

SpecEditor == InitEditor /\ [][NextEditor]_vars

\* No two items under the same parent have the same text.
UniqueSiblings(Its) ==
    \A x, y \in Its : (x.parent = y.parent /\ x.text = y.text) => x = y

\* The texts from the top of the tree down to the item x.
RECURSIVE ItemPath(_, _)
ItemPath(Its, x) ==
    IF x.parent = 0 THEN <<x.text>>
    ELSE Append(ItemPath(Its, CHOOSE y \in Its : y.id = x.parent), x.text)

AtLine == pc = "loop" /\ LineNo <= Len(ProcessedLines)

\* The line the main loop processes next is retained: it is classified and
\* not skipped as a file.
LineRetained ==
    /\ Classify(ProcessedLines[LineNo]).matched
    /\ ~IsSkippedFile(Classify(ProcessedLines[LineNo]).Name)

\* C23: a retained line with indent I and name N, met with previous indent P
\* and a path of length d, appends N when I > P, replaces the last segment
\* by N when I = P (length max(d, 1)), pops min(d, (P - I) div 2 + 1)
\* segments and appends N when I < P; afterwards the previous indent is I.
C23_NestingStep ==
    [][ (AtLine /\ LineRetained /\ LineNo' = LineNo + 1) =>
           LET I == Classify(ProcessedLines[LineNo]).Indent
               N == Classify(ProcessedLines[LineNo]).Name
               P == PrevIndent
               d == Len(Path)
               k == Min(d, ((P - I) \div 2) + 1)
           IN  /\ PrevIndent' = I
               /\ I > P => Path' = Append(Path, N)
               /\ I = P => /\ Len(Path') = (IF d > 1 THEN d ELSE 1)
                           /\ Path'[Len(Path')] = N
                           /\ \A j \in 1..(Len(Path') - 1) : Path'[j] = Path[j]
               /\ I < P => Path' = Append(SubSeq(Path, 1, d - k), N)
      ]_vars

\* Three lines were processed: the third, two columns to the left of the
\* second, popped two segments; or a line to the left of the only segment
\* asked for two pops and popped one.
C23_Witness ==
    /\ pc = "loop"
    /\ \/ /\ LineNo = 4
          /\ Classify(ProcessedLines[2]).Indent = 2
          /\ Classify(ProcessedLines[3]).Indent = 0
          /\ Len(Path) = 1
          /\ \E p \in Tree(Structure) : Len(p) = 2
       \/ /\ LineNo = 3
          /\ Classify(ProcessedLines[1]).Indent = 2
          /\ Classify(ProcessedLines[2]).Indent = 0
          /\ Len(Path) = 1

\* The lines of the text with only their trailing whitespace removed, the
\* blank lines and the root line left out.
LinesOfText(Text) == ProcessLines(SplitLines(Text.chars))

\* Line is leading whitespace, then the connector of an entry, then a name.
IsConnectorLine(Line) ==
    /\ \/ StartsWithAt(Line, LeadingWs(Line), ConnTee)
       \/ StartsWithAt(Line, LeadingWs(Line), ConnElbow)
    /\ Len(Line) > LeadingWs(Line) + 4

\* C24: the lines the main loop classifies are the lines of the text with
\* only trailing whitespace removed, and every such line, the first of the
\* text included, that is W whitespace characters, '├── ' or '└── ' and a
\* name gets Indent W and as Name the stripped text after the connector.
C24_Classification ==
    pc = "loop" =>
        /\ Len(ProcessedLines) = Len(LinesOfText(Content))
        /\ \A i \in 1..Len(ProcessedLines) :
              LET Line == LinesOfText(Content)[i]
                  W    == LeadingWs(Line)
                  C    == Classify(ProcessedLines[i])
              IN  IsConnectorLine(Line) =>
                      /\ C.matched
                      /\ C.Indent = W
                      /\ C.Name = Strip(SubSeq(Line, W + 5, Len(Line)))

\* Every prefix of the path p, p included, is the key path of an entry of S.
ChainExists(S, p) == \A k \in 1..Len(p) : HasEntry(S, SubSeq(p, 1, k))

\* C29: after a retained line is processed the path is not empty, its last
\* segment is the Name of the line, it is at most one segment longer than
\* before the line, and every prefix of it is a chain of nested keys of the
\* structure; between retained lines the chain of the path stays in the
\* structure.
C29_PathInStructure ==
    /\ [][ (AtLine /\ LineRetained /\ LineNo' = LineNo + 1) =>
              /\ Path' # <<>>
              /\ Path'[Len(Path')] = Classify(ProcessedLines[LineNo]).Name
              /\ Len(Path') <= Len(Path) + 1
              /\ ChainExists(Structure', Path')
          ]_vars
    /\ [](pc = "loop" => ChainExists(Structure, Path))

\* Three retained lines were processed, the last two below the first: the
\* path has two segments and the structure three entries.
C29_Witness ==
    /\ pc = "loop"
    /\ LineNo = 4
    /\ \A i \in 1..3 : Classify(ProcessedLines[i]).matched
    /\ Len(Path) = 2
    /\ Len(Structure) = 3
    /\ \E p \in Tree(Structure) : p # Path /\ Len(p) = 2

\* The line i of the processed lines is retained.
RetainedLine(i) ==
    /\ Classify(ProcessedLines[i]).matched
    /\ ~IsSkippedFile(Classify(ProcessedLines[i]).Name)

\* The number of retained lines the main loop has processed.
RetainedSoFar == Cardinality({i \in 1..(LineNo - 1) : RetainedLine(i)})

\* C30: a step of the parse leaves every entry of the structure in place
\* with its key path; a retained line adds nothing or one entry, that of its
\* path, whose proper prefixes were entries already; a line that is not
\* retained adds nothing; so the entries of the structure, and the length of
\* every key path, number at most the retained lines processed.
C30_OnlyGrows ==
    /\ [][ pc = "loop" =>
              \/ Structure' = Structure
              \/ /\ AtLine /\ LineRetained
                 /\ Structure' = Append(Structure, Path')
                 /\ \A k \in 1..(Len(Path') - 1) :
                       HasEntry(Structure, SubSeq(Path', 1, k))
          ]_vars
    /\ [](pc \in {"loop", "done"} =>
              /\ Len(Structure) <= RetainedSoFar
              /\ \A i \in 1..Len(Structure) : Len(Structure[i]) <= RetainedSoFar)

\* Three retained lines were processed and the third named an entry that
\* was there with an entry below it: the structure has two entries.
C30_Witness ==
    /\ pc = "loop"
    /\ LineNo = 4
    /\ \A i \in 1..3 : RetainedLine(i)
    /\ Len(Structure) = 2
    /\ Len(Path) = 1
    /\ \E i \in 1..2 : IsBelow(Structure[i], Path)

====
